---- MODULE Spec2Model ----
(***************************************************************************)
(* rssAlert: the feed corpus (feed.json), the merge of fetched items       *)
(* (fetch_rss.py), the enrichment run (summarize_with_gemini.py), the      *)
(* outer loop that repeats it (process_all.py), the passes that rewrite    *)
(* the corpus (score_relevance.py, fix_missing_keywords.py,                *)
(* regenerate_all.py, clean_keywords.py, fix_sources.py) and the import    *)
(* into the analytical store (analytics_db.py).                            *)
(*                                                                         *)
(* An item is a record whose DOMAIN is the set of keys of the JSON object: *)
(* a key that is absent in feed.json is absent from the DOMAIN. The items  *)
(* of the enrichment run and of the outer loop carry link, title and date  *)
(* only (no script of theirs reads source or description); the items of    *)
(* the merge, of the passes and of the import carry all five keys.         *)
(*                                                                         *)
(* These specifications share the variables:                               *)
(*   Spec         one run of summarize_with_gemini.py, which may be killed *)
(*   SpecLoop     process_all.py and the runs it starts                    *)
(*   SpecLoopFair SpecLoop with processes that run on until they are killed*)
(*   SpecScripts  either of the two started by hand, in any environment    *)
(*   SpecMerge    successive runs of fetch_rss.py, which may be killed     *)
(*   SpecAdapter  one call of generate_haptic_summary_and_keywords         *)
(*   SpecCorpus   the scripts that rewrite feed.json, in any order         *)
(*   SpecStore    imports into analytics.db between rewrites of feed.json  *)
(* The prompt (with the article excerpt and the preferred keywords) only   *)
(* reaches the service, whose answers are arbitrary here, and the pacing   *)
(* sleeps of the enrich loop change no state: neither is modelled.         *)
(***************************************************************************)
EXTENDS Integers, Sequences, FiniteSets, TLC

VARIABLES
    disk,       \* feed.json: [st, items]
    env,        \* environment of the scripts: [GEMINI_API_KEY, BATCH_SIZE]
    disk0,      \* feed.json as it was when the current script started
    status,     \* the script process: "none", "running", "exit0", "exit1", "killed"
    pc,         \* position of the script process in its main()
    mem,        \* items: the list the script holds in memory
    queue,      \* items_to_process: indexes into mem (the list holds references)
    idx,        \* idx of the enrich loop (1-based, 0 before the first iteration)
    invoked,    \* indexes of mem passed to the adapter in this run, in call order
    opc,        \* position of process_all.main
    iteration,  \* process_all: iteration
    remaining,  \* process_all: remaining
    runs,       \* process_all: number of scheduler sub-invocations made
    incoming,   \* fetch_rss: all_new_items of the current merge run
    script,     \* adapter: what the generation service answers, attempt by attempt
    attempt,    \* adapter: attempt of the retry loop
    sleeps,     \* adapter: the waits performed, in order
    result,     \* adapter: [returned, none, summary, keywords]
    persisted,  \* history: the links that complete feed.json documents have held
    store,      \* analytics.db: [articles, keywords, article_keywords]
    report      \* analytics_db: [imported, skipped] of the last import

vars == <<disk, env, disk0, status, pc, mem, queue, idx, invoked,
          opc, iteration, remaining, runs, incoming,
          script, attempt, sleeps, result, persisted, store, report>>

schedVars == <<status, pc, mem, queue, idx, invoked>>
loopVars == <<opc, iteration, remaining, runs>>
adapterVars == <<script, attempt, sleeps, result>>
storeVars == <<store, report>>

(***************************************************************************)
(* Bounds of the model.                                                    *)
(***************************************************************************)
MaxItems == 6
MaxBatch == 2
MaxLoopItems == 5
MaxIncoming == 2
MaxExisting == 1
MaxSnapshot == 2

(***************************************************************************)
(* Program constants.                                                      *)
(***************************************************************************)
DefaultBatchSize == 10
CheckpointEvery == 5
max_retries == 3
MaxKeywords == 4
BackoffBase == 10
FallbackLimit == 500

Sentinel == "Unable to generate summary"
excluded_keywords == {"haptic", "haptics", "vibration", "vibrations", "tactile"}

(***************************************************************************)
(* Python helpers.                                                         *)
(***************************************************************************)
Prefix(s, n) == IF n >= Len(s) THEN s ELSE IF n <= 0 THEN <<>> ELSE SubSeq(s, 1, n)

\* s[:n] of Python, n possibly negative
PySlice(s, n) == IF n >= 0 THEN Prefix(s, n) ELSE Prefix(s, Len(s) + n)

\* item.get(f) is truthy, for a string field
TruthyStr(item, f) == f \in DOMAIN item /\ item[f] # ""

\* item.get(f) is truthy, for a list field
TruthyList(item, f) == f \in DOMAIN item /\ item[f] # <<>>

\* item[f] = v of Python: the key is added when absent
SetField(item, f, v) == (f :> v) @@ item

\* item.pop(f, None)
PopField(item, f) == [g \in DOMAIN item \ {f} |-> item[g]]

(***************************************************************************)
(* The generation client adapter: generate_haptic_summary_and_keywords.    *)
(*                                                                         *)
(* The service answers one attempt with a Response: either an exception    *)
(* whose str(e) is msg (a sequence of characters), or a text. A text is    *)
(* given by its stripped raw string (with its length in characters) and    *)
(* its lines; a line is tagged by the prefix it starts with, body is what  *)
(* follows the prefix, stripped, and pieces is what follows it split at    *)
(* the commas.                                                             *)
(***************************************************************************)
Line(tag, body, pieces) == [tag |-> tag, body |-> body, pieces |-> pieces]

Text(raw, len, lines) == [raw |-> raw, len |-> len, lines |-> lines]

OkResponse(text) == [kind |-> "ok", text |-> text, msg |-> <<>>]

ErrResponse(msg) == [kind |-> "error", text |-> Text("", 0, <<>>), msg |-> msg]

Msg429 == <<"4", "2", "9">>
MsgQuota == <<"Q", "u", "o", "t", "a">>
MsgTimeout == <<"t", "i", "m", "e", "o", "u", "t">>
Msg500 == <<"5", "0", "0">>
MsgCode429 == <<"E", "4", "2", "9", "!">>

TextFull ==
    Text("SUMMARY: s1\nKEYWORDS: vr, Haptic, gaming", 40,
         <<Line("SUMMARY", "s1", <<>>),
           Line("KEYWORDS", "", <<"vr", " Haptic", " gaming">>)>>)

TextNoKeywords == Text("SUMMARY: s2", 11, <<Line("SUMMARY", "s2", <<>>)>>)

TextFree == Text("free text", 9, <<Line("other", "free text", <<>>)>>)

TextEmpty == Text("", 0, <<Line("other", "", <<>>)>>)

TextEmptySummary ==
    Text("SUMMARY:\nKEYWORDS: VR", 21,
         <<Line("SUMMARY", "", <<>>), Line("KEYWORDS", "", <<"VR">>)>>)

TextManyKeywords ==
    Text("SUMMARY: s3\nKEYWORDS: a, tactile, b, , c, d, e", 46,
         <<Line("SUMMARY", "s3", <<>>),
           Line("KEYWORDS", "", <<"a", " tactile", " b", " ", " c", " d", " e">>)>>)

TextLong == Text("<600 characters>", 600, <<Line("other", "<600 characters>", <<>>)>>)

\* k.strip()
Strip(k) ==
    CASE k = " Haptic" -> "Haptic"
      [] k = " gaming" -> "gaming"
      [] k = " tactile" -> "tactile"
      [] k = " b" -> "b"
      [] k = " c" -> "c"
      [] k = " d" -> "d"
      [] k = " e" -> "e"
      [] k = " " -> ""
      [] OTHER -> k

\* k.lower()
LowerWord(k) ==
    CASE k = "Haptic" -> "haptic"
      [] k = "Haptics" -> "haptics"
      [] k = "VR" -> "vr"
      [] OTHER -> k

LowerChar(c) ==
    CASE c = "Q" -> "q"
      [] OTHER -> c

\* s.lower(), s a sequence of characters
Lower(s) == [k \in 1..Len(s) |-> LowerChar(s[k])]

\* p in s, for sequences of characters
Contains(s, p) == \E k \in 0..(Len(s) - Len(p)) : SubSeq(s, k + 1, k + Len(p)) = p

\* "429" in error_msg or "quota" in error_msg.lower()
IsRateLimit(msg) ==
    \/ Contains(msg, <<"4", "2", "9">>)
    \/ Contains(Lower(msg), <<"q", "u", "o", "t", "a">>)

RECURSIVE KeepKeywords_CaseSensitive(_)
\* the filter comparing the keyword as the service wrote it
KeepKeywords_CaseSensitive(pieces) ==
    IF pieces = <<>> THEN <<>>
    ELSE LET k == Strip(Head(pieces))
         IN  (IF k # "" /\ k \notin excluded_keywords
              THEN <<LowerWord(k)>> ELSE <<>>) \o KeepKeywords_CaseSensitive(Tail(pieces))

RECURSIVE KeepKeywords(_)
\* [k.strip().lower() for k in pieces if k.strip() and k.strip().lower() not in excluded_keywords]
KeepKeywords(pieces) ==
    IF pieces = <<>> THEN <<>>
    ELSE LET k == Strip(Head(pieces))
         IN  (IF k # "" /\ LowerWord(k) \notin excluded_keywords
              THEN <<LowerWord(k)>> ELSE <<>>) \o KeepKeywords(Tail(pieces))

\* the truncation made on the entries of the line, before the filter
ParseKeywords_CutFirst(pieces) == KeepKeywords(Prefix(pieces, MaxKeywords))

\* keywords = [...]; keywords = keywords[:4]
ParseKeywords(pieces) == Prefix(KeepKeywords(pieces), MaxKeywords)

RECURSIVE ScanLines(_, _, _)
\* the loop over the lines of the response: a later line overrides an earlier one
ScanLines(lines, summary, keywords) ==
    IF lines = <<>> THEN [summary |-> summary, keywords |-> keywords]
    ELSE LET line == Head(lines)
         IN  IF line.tag = "SUMMARY"
             THEN ScanLines(Tail(lines), line.body, keywords)
             ELSE IF line.tag = "KEYWORDS"
             THEN ScanLines(Tail(lines), summary, ParseKeywords(line.pieces))
             ELSE ScanLines(Tail(lines), summary, keywords)

\* result[:497] + "..."
CutWithDots(raw) ==
    CASE raw = "<600 characters>" -> "<first 497 characters>..."
      [] OTHER -> raw

\* result[:500] if len(result) <= 500 else result[:497] + "..."
Fallback(text) == IF text.len <= FallbackLimit THEN text.raw ELSE CutWithDots(text.raw)

Returned(summary, keywords) ==
    [returned |-> TRUE, none |-> FALSE, summary |-> summary, keywords |-> keywords]

\* return None, []
ReturnedNone == [returned |-> TRUE, none |-> TRUE, summary |-> "", keywords |-> <<>>]

NotReturned == [returned |-> FALSE, none |-> TRUE, summary |-> "", keywords |-> <<>>]

ParseResponse(text) ==
    LET p == ScanLines(text.lines, "", <<>>)
    IN  Returned(IF p.summary = "" THEN Fallback(text) ELSE p.summary, p.keywords)

\* the wait that does not grow
WaitTime_Fixed(a) == BackoffBase

\* (2 ** attempt) * 10
WaitTime(a) == (2 ^ a) * BackoffBase

\* the retry loop retrying after any error
AttemptBody_RetryAny(a, resp) ==
    IF resp.kind = "ok"
    THEN [result |-> ParseResponse(resp.text), wait |-> 0]
    ELSE IF a < max_retries - 1
         THEN [result |-> NotReturned, wait |-> WaitTime(a)]
         ELSE [result |-> ReturnedNone, wait |-> 0]

\* One iteration of the retry loop, attempt a (0-based), the service answering
\* resp: [result, wait] where wait = 0 means that no sleep is performed.
AttemptBody(a, resp) ==
    IF resp.kind = "ok"
    THEN [result |-> ParseResponse(resp.text), wait |-> 0]
    ELSE IF IsRateLimit(resp.msg)
         THEN IF a < max_retries - 1
              THEN [result |-> NotReturned, wait |-> WaitTime(a)]
              ELSE [result |-> ReturnedNone, wait |-> 0]
         ELSE [result |-> ReturnedNone, wait |-> 0]

RECURSIVE RunAttempts(_, _)
\* for attempt in range(max_retries): ...; return None, []
RunAttempts(scr, a) ==
    IF a >= max_retries THEN ReturnedNone
    ELSE LET o == AttemptBody(a, scr[a + 1])
         IN  IF o.result.returned THEN o.result ELSE RunAttempts(scr, a + 1)

\* generate_haptic_summary_and_keywords, the service answering scr[k] to attempt k
Enrich(scr) == RunAttempts(scr, 0)

\* if summary:
ResultTruthy(r) == ~r.none /\ r.summary # ""

(***************************************************************************)
(* feed.json. open(filename, "w") truncates the file at once and json.dump *)
(* then writes the document piece by piece: until the write is complete    *)
(* the file holds an empty or a partial document, which json.load rejects. *)
(***************************************************************************)
NoFile == [st |-> "missing", items |-> <<>>]

\* open(filename, "w"): the file is truncated, the document not yet written
SaveOpen == [st |-> "torn", items |-> <<>>]

\* json.dump(items, f) has completed and the file is closed
SaveClose(items) == [st |-> "ok", items |-> items]

\* json.load(f) succeeds
Readable(d) == d.st = "ok"

Links(items) == {items[k].link : k \in 1..Len(items)}

Titles(items) == {items[k].title : k \in 1..Len(items)}

\* analytics.db after create_database() on a new file: the three tables, empty
EmptyStore == [articles |-> <<>>, keywords |-> <<>>, article_keywords |-> <<>>]

NoReport == [imported |-> 0, skipped |-> 0]

IdleStore == store = EmptyStore /\ report = NoReport

\* the links of the document in feed.json, none when there is no document
LinksOnDisk(d) == IF Readable(d) THEN Links(d.items) ELSE {}

(***************************************************************************)
(* The enrichment run: summarize_with_gemini.main.                         *)
(***************************************************************************)
\* the selection taking an item marked as failed once more
NeedsSummary_RetryFailed(item) ==
    "ai_summary" \notin DOMAIN item \/ item.ai_summary \in {"", Sentinel}

\* not item.get("ai_summary")
NeedsSummary(item) == ~TruthyStr(item, "ai_summary")

\* the selection taking every item, summarised or not
NeedIdx_All(items, k) == [j \in 1..(Len(items) - k + 1) |-> j + k - 1]

RECURSIVE NeedIdx(_, _)
\* [item for item in items if not item.get("ai_summary")], as indexes from k on
NeedIdx(items, k) ==
    IF k > Len(items) THEN <<>>
    ELSE (IF NeedsSummary(items[k]) THEN <<k>> ELSE <<>>) \o NeedIdx(items, k + 1)

\* sum(1 for item in items if not item.get('ai_summary'))
CountNeeds(items) == Len(NeedIdx(items, 1))

UnsetBatch == [kind |-> "unset", val |-> 0]
JunkBatch == [kind |-> "junk", val |-> 0]
IntBatch(b) == [kind |-> "int", val |-> b]

\* int(os.environ.get("BATCH_SIZE", "10")), for a value that int() accepts
BatchSize(e) == IF e.BATCH_SIZE.kind = "unset" THEN DefaultBatchSize ELSE e.BATCH_SIZE.val

\* the batch limit taking one item, whatever the batch size
BatchLimit_One(q, b) == PySlice(q, 1)

\* the batch limit taking one item too many
BatchLimit_OneMore(q, b) == IF Len(q) > b THEN PySlice(q, b + 1) ELSE q

\* if len(items_to_process) > batch_size: items_to_process = items_to_process[:batch_size]
BatchLimit(q, b) == IF Len(q) > b THEN PySlice(q, b) ELSE q

\* the enrich loop leaving an item untouched when the adapter fails
ApplyResult_SkipFailure(item, r) ==
    IF ResultTruthy(r)
    THEN SetField(SetField(item, "ai_summary", r.summary), "keywords", r.keywords)
    ELSE item

\* the enrich loop setting the summary of a success without its keywords
ApplyResult_SummaryAlone(item, r) ==
    IF ResultTruthy(r)
    THEN SetField(item, "ai_summary", r.summary)
    ELSE SetField(SetField(item, "ai_summary", Sentinel), "keywords", <<>>)

\* the enrich loop marking a failed item without emptying its keywords
ApplyResult_SentinelOnly(item, r) ==
    IF ResultTruthy(r)
    THEN SetField(SetField(item, "ai_summary", r.summary), "keywords", r.keywords)
    ELSE SetField(item, "ai_summary", Sentinel)

\* the two branches of "if summary:" in the enrich loop
ApplyResult(item, r) ==
    IF ResultTruthy(r)
    THEN SetField(SetField(item, "ai_summary", r.summary), "keywords", r.keywords)
    ELSE SetField(SetField(item, "ai_summary", Sentinel), "keywords", <<>>)

\* if idx % 5 == 0
CheckpointDue(i) == i % CheckpointEvery = 0

\* the credential test taking any environment
HasKey_Always(e) == TRUE

\* api_key = os.environ.get("GEMINI_API_KEY"); if not api_key: ... is not taken
HasKey(e) == e.GEMINI_API_KEY

\* what the service may answer during a run
SchedResponses == {OkResponse(TextFull), OkResponse(TextEmpty), ErrResponse(Msg429), ErrResponse(Msg500)}

SchedScripts == [1..max_retries -> SchedResponses]

SchedExit(code) ==
    /\ status' = code
    /\ pc' = "end"
    /\ UNCHANGED <<disk, mem, queue, idx, invoked>>

\* main() up to the enrich loop: the credential, load_feed, the selection, the batch limit
SchedStart ==
    /\ status = "running" /\ pc = "start"
    /\ IF ~HasKey(env) \/ ~Readable(disk)
       THEN SchedExit("exit1")
       ELSE LET q == NeedIdx(disk.items, 1)
            IN  IF q = <<>>
                THEN /\ status' = "exit0"
                     /\ pc' = "end"
                     /\ mem' = disk.items
                     /\ UNCHANGED <<disk, queue, idx, invoked>>
                ELSE IF env.BATCH_SIZE.kind = "junk"
                THEN /\ status' = "exit1"
                     /\ pc' = "end"
                     /\ mem' = disk.items
                     /\ UNCHANGED <<disk, queue, idx, invoked>>
                ELSE /\ pc' = "loop"
                     /\ mem' = disk.items
                     /\ queue' = BatchLimit(q, BatchSize(env))
                     /\ UNCHANGED <<disk, status, idx, invoked>>
    /\ UNCHANGED <<env, persisted, storeVars, disk0, loopVars, incoming, adapterVars>>

\* one iteration of the enrich loop, up to the open() of the checkpoint when one is due
ProcessItem ==
    /\ status = "running" /\ pc = "loop" /\ idx < Len(queue)
    /\ \E scr \in SchedScripts :
         LET i == queue[idx + 1]
         IN  /\ result' = Enrich(scr)
             /\ mem' = [mem EXCEPT ![i] = ApplyResult(mem[i], Enrich(scr))]
             /\ invoked' = Append(invoked, i)
    /\ idx' = idx + 1
    /\ IF CheckpointDue(idx + 1)
       THEN disk' = SaveOpen /\ pc' = "checkpoint"
       ELSE UNCHANGED <<disk, pc>>
    /\ UNCHANGED <<env, persisted, storeVars, disk0, status, queue, loopVars, incoming,
                   script, attempt, sleeps>>

\* the checkpoint's json.dump completes
CheckpointWritten ==
    /\ status = "running" /\ pc = "checkpoint"
    /\ disk' = SaveClose(mem)
    /\ persisted' = persisted \cup Links(mem)
    /\ pc' = "loop"
    /\ UNCHANGED <<env, storeVars, disk0, status, mem, queue, idx, invoked, loopVars, incoming, adapterVars>>

\* the run ending after the loop without the final save_feed(items)
FinalOpen_NoSave ==
    /\ status = "running" /\ pc = "loop" /\ idx = Len(queue)
    /\ status' = "exit0"
    /\ pc' = "end"
    /\ UNCHANGED <<disk, env, persisted, storeVars, disk0, mem, queue, idx, invoked, loopVars, incoming, adapterVars>>

\* after the loop: the open() of the final save_feed(items)
FinalOpen ==
    /\ status = "running" /\ pc = "loop" /\ idx = Len(queue)
    /\ disk' = SaveOpen
    /\ pc' = "final"
    /\ UNCHANGED <<env, persisted, storeVars, disk0, status, mem, queue, idx, invoked, loopVars, incoming, adapterVars>>

\* the final json.dump completes and main() returns
FinalWritten ==
    /\ status = "running" /\ pc = "final"
    /\ disk' = SaveClose(mem)
    /\ persisted' = persisted \cup Links(mem)
    /\ status' = "exit0"
    /\ pc' = "end"
    /\ UNCHANGED <<env, storeVars, disk0, mem, queue, idx, invoked, loopVars, incoming, adapterVars>>

\* the process is terminated (there is no other cancellation)
Kill ==
    /\ status = "running"
    /\ status' = "killed"
    /\ UNCHANGED <<disk, env, persisted, storeVars, disk0, pc, mem, queue, idx, invoked, loopVars, incoming, adapterVars>>

(***************************************************************************)
(* Corpora and environments the runs start from.                           *)
(***************************************************************************)
RawItem(i) == [link |-> i, title |-> i, date |-> 1]

DoneItem(i) == [link |-> i, title |-> i, date |-> 1, ai_summary |-> "s0", keywords |-> <<"vr">>]

MakeItem(i, kind) == IF kind = "done" THEN DoneItem(i) ELSE RawItem(i)

\* the corpora of n items, each one fresh from the feed or already enriched
Corpora(n) == {[i \in 1..n |-> MakeItem(i, kinds[i])] : kinds \in [1..n -> {"raw", "done"}]}

BatchEnvs == {UnsetBatch, JunkBatch} \cup {IntBatch(b) : b \in (0 - 1)..MaxBatch}

Disks(n) == {NoFile, SaveOpen} \cup {SaveClose(c) : c \in UNION {Corpora(k) : k \in 0..n}}

IdleLoop == opc = "none" /\ iteration = 0 /\ remaining = 0 /\ runs = 0

IdleAdapter == script = <<>> /\ attempt = 0 /\ sleeps = <<>> /\ result = NotReturned

\* one run of summarize_with_gemini.py, started by hand
Init ==
    /\ disk \in Disks(MaxItems)
    /\ env \in [GEMINI_API_KEY : BOOLEAN, BATCH_SIZE : BatchEnvs]
    /\ disk0 = disk
    /\ status = "running" /\ pc = "start"
    /\ mem = <<>> /\ queue = <<>> /\ idx = 0 /\ invoked = <<>>
    /\ IdleLoop
    /\ incoming = <<>>
    /\ IdleAdapter
    /\ persisted = LinksOnDisk(disk)
    /\ IdleStore

Next ==
    \/ SchedStart
    \/ ProcessItem
    \/ CheckpointWritten
    \/ FinalOpen
    \/ FinalWritten
    \/ Kill

Spec == Init /\ [][Next]_vars

(***************************************************************************)
(* The outer loop: process_all.main. It runs summarize_with_gemini.py as a *)
(* child process (with its own environment) and waits for it.              *)
(***************************************************************************)
\* count_remaining: an unreadable feed.json counts as 0 remaining
CountRemaining(d) == IF Readable(d) THEN CountNeeds(d.items) ELSE 0

\* if new_remaining == remaining
NoProgress(new_remaining, old_remaining) == new_remaining = old_remaining

\* the test of the child's exit taking every exit as a success
ChildFailed_Never(st) == FALSE

\* subprocess.run(..., check=True) raises CalledProcessError: the child's
\* return code is not 0 (an exit status, or the signal that ended it)
ChildFailed(st) == st # "exit0"

\* the credential check before the loop
LoopStart ==
    /\ opc = "start"
    /\ opc' = IF HasKey(env) THEN "top" ELSE "failed"
    /\ UNCHANGED <<disk, env, persisted, storeVars, disk0, schedVars, iteration, remaining, runs, incoming, adapterVars>>

\* the head of an iteration: count, stop when nothing remains, else start the child
LoopTop ==
    /\ opc = "top"
    /\ iteration' = iteration + 1
    /\ remaining' = CountRemaining(disk)
    /\ IF CountRemaining(disk) = 0
       THEN /\ opc' = "done"
            /\ UNCHANGED <<disk0, schedVars, runs>>
       ELSE /\ opc' = "wait"
            /\ runs' = runs + 1
            /\ disk0' = disk
            /\ status' = "running" /\ pc' = "start"
            /\ mem' = <<>> /\ queue' = <<>> /\ idx' = 0 /\ invoked' = <<>>
    /\ UNCHANGED <<disk, env, persisted, storeVars, incoming, adapterVars>>

\* the child has ended: stop on its failure, stop on no progress, else go on
LoopAfterRun ==
    /\ opc = "wait"
    /\ status \in {"exit0", "exit1", "killed"}
    /\ opc' = IF ChildFailed(status) THEN "failed"
              ELSE IF NoProgress(CountRemaining(disk), remaining) THEN "stalled"
              ELSE "top"
    /\ status' = "none"
    /\ UNCHANGED <<disk, env, persisted, storeVars, disk0, pc, mem, queue, idx, invoked,
                   iteration, remaining, runs, incoming, adapterVars>>

\* process_all.py started by hand
InitLoop ==
    /\ disk \in Disks(MaxLoopItems)
    /\ env \in [GEMINI_API_KEY : BOOLEAN, BATCH_SIZE : BatchEnvs]
    /\ disk0 = disk
    /\ status = "none" /\ pc = "end"
    /\ mem = <<>> /\ queue = <<>> /\ idx = 0 /\ invoked = <<>>
    /\ opc = "start" /\ iteration = 0 /\ remaining = 0 /\ runs = 0
    /\ incoming = <<>>
    /\ IdleAdapter
    /\ persisted = LinksOnDisk(disk)
    /\ IdleStore

NextLoop ==
    \/ LoopStart
    \/ LoopTop
    \/ LoopAfterRun
    \/ SchedStart
    \/ ProcessItem
    \/ CheckpointWritten
    \/ FinalOpen
    \/ FinalWritten
    \/ Kill

SpecLoop == InitLoop /\ [][NextLoop]_vars

\* what process_all.main and the run it waits for do by themselves: every
\* statement but the termination of the process from outside
LoopRuns ==
    \/ LoopStart
    \/ LoopTop
    \/ LoopAfterRun
    \/ SchedStart
    \/ ProcessItem
    \/ CheckpointWritten
    \/ FinalOpen
    \/ FinalWritten

\* the outer loop with processes that go on while they are not killed, and
\* calls of the service that end (with a text or an exception)
SpecLoopFair == SpecLoop /\ WF_vars(LoopRuns)

(***************************************************************************)
(* Either script started by hand, from any environment and any state of    *)
(* feed.json: summarize_with_gemini.py, or process_all.py, which is also   *)
(* what is started when the run by hand has ended with a failure; and      *)
(* summarize_with_gemini.py started again after an interruption.           *)
(***************************************************************************)
\* process_all.py is started after summarize_with_gemini.py has failed
LoopLaunch ==
    /\ opc = "none"
    /\ status = "exit1"
    /\ opc' = "start"
    /\ pc' = "end"
    /\ mem' = <<>> /\ queue' = <<>> /\ idx' = 0 /\ invoked' = <<>>
    /\ UNCHANGED <<disk, env, persisted, storeVars, disk0, status,
                   iteration, remaining, runs, incoming, adapterVars>>

\* summarize_with_gemini.py is started by hand once more, after a run that was
\* killed or after process_all.py has ended
RunAgain ==
    /\ \/ opc = "none" /\ status = "killed"
       \/ opc \in {"done", "stalled", "failed"} /\ status \in {"none", "killed"}
    /\ status' = "running"
    /\ pc' = "start"
    /\ disk0' = disk
    /\ mem' = <<>> /\ queue' = <<>> /\ idx' = 0 /\ invoked' = <<>>
    /\ UNCHANGED <<disk, env, persisted, storeVars, loopVars, incoming, adapterVars>>

InitScripts ==
    /\ disk \in Disks(MaxLoopItems)
    /\ env \in [GEMINI_API_KEY : BOOLEAN, BATCH_SIZE : BatchEnvs]
    /\ disk0 = disk
    /\ \/ status = "running" /\ pc = "start" /\ opc = "none"
       \/ status = "none" /\ pc = "end" /\ opc = "start"
    /\ mem = <<>> /\ queue = <<>> /\ idx = 0 /\ invoked = <<>>
    /\ iteration = 0 /\ remaining = 0 /\ runs = 0
    /\ incoming = <<>>
    /\ IdleAdapter
    /\ persisted = LinksOnDisk(disk)
    /\ IdleStore

NextScripts ==
    \/ LoopLaunch
    \/ RunAgain
    \/ LoopStart
    \/ LoopTop
    \/ LoopAfterRun
    \/ SchedStart
    \/ ProcessItem
    \/ CheckpointWritten
    \/ FinalOpen
    \/ FinalWritten
    \/ Kill

SpecScripts == InitScripts /\ [][NextScripts]_vars

(***************************************************************************)
(* The merge of fetched items: fetch_rss.main.                             *)
(***************************************************************************)
\* load_existing_feed: no file, or a file json.load rejects, gives []
LoadExisting(d) == IF Readable(d) THEN d.items ELSE <<>>

\* the filter looking at the link alone
Dedup_LinkOnly(new_items, existing_items) ==
    SelectSeq(new_items, LAMBDA item : item.link \notin Links(existing_items))

\* the filter looking at the title alone
Dedup_TitleOnly(new_items, existing_items) ==
    SelectSeq(new_items, LAMBDA item : item.title \notin Titles(existing_items))

\* deduplicate_items: the new items whose link and title are both unknown
deduplicate_items(new_items, existing_items) ==
    SelectSeq(new_items,
              LAMBDA item : /\ item.link \notin Links(existing_items)
                            /\ item.title \notin Titles(existing_items))

RECURSIVE InsertDesc_BeforeTies(_, _)
\* the sort putting x before the items of the same date
InsertDesc_BeforeTies(sorted, x) ==
    IF sorted = <<>> THEN <<x>>
    ELSE IF Head(sorted).date > x.date
         THEN <<Head(sorted)>> \o InsertDesc_BeforeTies(Tail(sorted), x)
         ELSE <<x>> \o sorted

RECURSIVE InsertDesc(_, _)
\* x put behind the last item of the sorted list whose date is not older
InsertDesc(sorted, x) ==
    IF sorted = <<>> THEN <<x>>
    ELSE IF Head(sorted).date >= x.date
         THEN <<Head(sorted)>> \o InsertDesc(Tail(sorted), x)
         ELSE <<x>> \o sorted

RECURSIVE SortByDateDesc(_)
\* items.sort(key=lambda x: x["date"], reverse=True): stable, newest first
SortByDateDesc(items) ==
    IF items = <<>> THEN <<>>
    ELSE InsertDesc(SortByDateDesc(SubSeq(items, 1, Len(items) - 1)), items[Len(items)])

\* existing_items + unique_new_items, as save_feed sorts it
MergeItems(existing_items, new_items) ==
    SortByDateDesc(existing_items \o deduplicate_items(new_items, existing_items))

\* get_domain(link), for the links of the model
get_domain(link) ==
    CASE link = "a" -> "site-a"
      [] link = "b" -> "site-b"
      [] link = "c" -> "site-c"
      [] OTHER -> "unknown"

\* the description the feed gives with the entry, cleaned: entry "b" has none
EntryDescription(link) == IF link = "b" THEN "" ELSE "text"

FeedItem(link, title, date) ==
    [link |-> link, title |-> title, date |-> date,
     source |-> get_domain(link), description |-> EntryDescription(link)]

\* what the feeds deliver: entries that share a link, entries that share a
\* title under different links, and an entry that shares nothing
FeedItems ==
    {FeedItem("a", "x", 2), FeedItem("a", "y", 1),
     FeedItem("b", "x", 3), FeedItem("c", "z", 2)}

\* an item with every field the later passes add
Enriched(item) ==
    [link |-> item.link, title |-> item.title, date |-> item.date,
     source |-> item.source, description |-> item.description,
     ai_summary |-> "s0", keywords |-> <<"vr">>, relevance_level |-> "mid"]

IsSortedDesc(items) == \A k \in 1..(Len(items) - 1) : items[k].date >= items[k + 1].date

DistinctLinks(items) == \A k, l \in 1..Len(items) : k # l => items[k].link # items[l].link

\* the corpora a merge may find: distinct links, in the order save_feed leaves
MergeCorpora ==
    {c \in UNION {[1..n -> FeedItems \cup {Enriched(x) : x \in FeedItems}] : n \in 0..MaxExisting} :
        IsSortedDesc(c) /\ DistinctLinks(c)}

\* what the feeds deliver to one run: all_new_items
FeedBatches == UNION {[1..n -> FeedItems] : n \in 0..MaxIncoming}

\* main() up to the open() of save_feed: load, fetch, deduplicate, combine, sort
MergeOpenFrom(batches) ==
    /\ \E new_items \in batches :
         /\ incoming' = new_items
         /\ mem' = MergeItems(LoadExisting(disk), new_items)
    /\ disk0' = disk
    /\ disk' = SaveOpen
    /\ status' = "running"
    /\ pc' = "merge_save"
    /\ UNCHANGED <<env, persisted, storeVars, queue, idx, invoked, loopVars, adapterVars>>

MergeOpen ==
    /\ status # "running"
    /\ MergeOpenFrom(FeedBatches)

\* json.dump of save_feed completes and main() returns: its locals are gone
MergeWritten ==
    /\ status = "running" /\ pc = "merge_save"
    /\ disk' = SaveClose(mem)
    /\ persisted' = persisted \cup Links(mem)
    /\ disk0' = SaveClose(mem)
    /\ status' = "exit0"
    /\ pc' = "end"
    /\ mem' = <<>>
    /\ incoming' = <<>>
    /\ UNCHANGED <<env, storeVars, queue, idx, invoked, loopVars, adapterVars>>

InitMerge ==
    /\ disk \in {NoFile} \cup {SaveClose(c) : c \in MergeCorpora}
    /\ env = [GEMINI_API_KEY |-> TRUE, BATCH_SIZE |-> UnsetBatch]
    /\ disk0 = disk
    /\ status = "none" /\ pc = "end"
    /\ mem = <<>> /\ queue = <<>> /\ idx = 0 /\ invoked = <<>>
    /\ IdleLoop
    /\ incoming = <<>>
    /\ IdleAdapter
    /\ persisted = LinksOnDisk(disk)
    /\ IdleStore

NextMerge ==
    \/ MergeOpen
    \/ MergeWritten
    \/ Kill

SpecMerge == InitMerge /\ [][NextMerge]_vars

(***************************************************************************)
(* One call of the adapter, attempt by attempt.                            *)
(***************************************************************************)
ServiceTexts ==
    {TextFull, TextNoKeywords, TextFree, TextEmpty, TextEmptySummary, TextManyKeywords, TextLong}

ServiceErrors == {Msg429, MsgQuota, MsgCode429, MsgTimeout, Msg500}

\* one pass through the body of the retry loop with the service answering resp
AdapterStep(resp) ==
    /\ ~result.returned
    /\ attempt < max_retries
    /\ LET o == AttemptBody(attempt, resp)
       IN  /\ result' = o.result
           /\ sleeps' = IF o.wait > 0 THEN Append(sleeps, o.wait) ELSE sleeps
           /\ attempt' = IF o.result.returned THEN attempt ELSE attempt + 1
    /\ script' = Append(script, resp)
    /\ UNCHANGED <<disk, env, persisted, storeVars, disk0, schedVars, loopVars, incoming>>

\* model.generate_content(prompt) returns a text
AttemptAnswered == \E t \in ServiceTexts : AdapterStep(OkResponse(t))

\* model.generate_content(prompt) raises
AttemptRaised == \E m \in ServiceErrors : AdapterStep(ErrResponse(m))

InitAdapter ==
    /\ disk = NoFile
    /\ env = [GEMINI_API_KEY |-> TRUE, BATCH_SIZE |-> UnsetBatch]
    /\ disk0 = disk
    /\ status = "none" /\ pc = "end"
    /\ mem = <<>> /\ queue = <<>> /\ idx = 0 /\ invoked = <<>>
    /\ IdleLoop
    /\ incoming = <<>>
    /\ IdleAdapter
    /\ persisted = LinksOnDisk(disk)
    /\ IdleStore

NextAdapter ==
    \/ AttemptAnswered
    \/ AttemptRaised

SpecAdapter == InitAdapter /\ [][NextAdapter]_vars

(***************************************************************************)
(* The passes over feed.json: score_relevance.py, fix_missing_keywords.py, *)
(* regenerate_all.py, clean_keywords.py, fix_sources.py, and with them     *)
(* fetch_rss.py and summarize_with_gemini.py, started one after the other  *)
(* in any order. Every pass loads the document, changes the items in       *)
(* memory and writes all of them back in place; a pass that cannot load    *)
(* the document ends on the exception. Here a run of the enrichment is one *)
(* step up to the open() of its save: with fewer than CheckpointEvery      *)
(* items in a batch that save is the only one it makes.                    *)
(***************************************************************************)
\* the script has loaded feed.json and opens it for writing, holding items
PassOpen(at, items) ==
    /\ disk0' = disk
    /\ disk' = SaveOpen
    /\ mem' = items
    /\ status' = "running"
    /\ pc' = at

\* the script ends without writing: an early return (at), or an exception ("end")
PassEnds(code, at) ==
    /\ disk0' = disk
    /\ mem' = <<>>
    /\ status' = code
    /\ pc' = at
    /\ UNCHANGED disk

\* json.dump completes and the script ends: its locals are gone
PassWritten ==
    /\ disk' = SaveClose(mem)
    /\ disk0' = SaveClose(mem)
    /\ persisted' = persisted \cup Links(mem)
    /\ status' = "exit0"
    /\ pc' = "end"
    /\ mem' = <<>>
    /\ queue' = <<>>
    /\ UNCHANGED <<env, storeVars, idx, invoked, loopVars, incoming, adapterVars>>

\* what a pass leaves alone up to its open()
PassFrame == UNCHANGED <<env, persisted, storeVars, idx, invoked, loopVars, incoming, adapterVars>>

\* ---- score_relevance.py ----
\* not item.get('relevance_level')
NeedsScore_Always(item) == TRUE

NeedsScore(item) == ~TruthyStr(item, "relevance_level")

\* response.text.strip().upper()
StripUpper(text) ==
    CASE text = "high" -> "HIGH"
      [] text = "Mid " -> "MID"
      [] text = "LOW" -> "LOW"
      [] text = "maybe" -> "MAYBE"
      [] OTHER -> text

\* result.lower(), for the three accepted words
LevelLower(word) ==
    CASE word = "HIGH" -> "high"
      [] word = "MID" -> "mid"
      [] word = "LOW" -> "low"
      [] OTHER -> word

\* what the model answers to a score prompt: a text, or an exception
ScoreAnswers == {"high", "Mid ", "LOW", "maybe", "<exception>"}

\* score_post: low without a summary or description, low on an exception or
\* an unclear answer, else the answer
score_post(item, answer) ==
    IF ~TruthyStr(item, "ai_summary") /\ ~TruthyStr(item, "description") THEN "low"
    ELSE IF answer = "<exception>" THEN "low"
    ELSE IF StripUpper(answer) \in {"HIGH", "MID", "LOW"} THEN LevelLower(StripUpper(answer))
    ELSE "low"

\* the loop over items_to_score, the model answering answers[k] for items[k]
ScoreAll(items, answers) ==
    [k \in 1..Len(items) |->
        IF NeedsScore(items[k])
        THEN SetField(items[k], "relevance_level", score_post(items[k], answers[k]))
        ELSE items[k]]

ScoreOpen ==
    /\ status # "running"
    /\ IF ~HasKey(env) \/ ~Readable(disk)
       THEN PassEnds("exit1", "end")
       ELSE IF \A k \in 1..Len(disk.items) : ~NeedsScore(disk.items[k])
       THEN PassEnds("exit0", "score_return")
       ELSE \E answers \in [1..Len(disk.items) -> ScoreAnswers] :
                PassOpen("score_save", ScoreAll(disk.items, answers))
    /\ UNCHANGED queue
    /\ PassFrame

ScoreWritten ==
    /\ status = "running" /\ pc = "score_save"
    /\ PassWritten

\* ---- fix_missing_keywords.py ----
\* the repair leaving alone the items marked as failed
SummaryWithoutKeywords_NotFailed(item) ==
    /\ TruthyStr(item, "ai_summary") /\ item.ai_summary # Sentinel
    /\ ~TruthyList(item, "keywords")

\* item.get('ai_summary') and (not item.get('keywords') or len(item.get('keywords', [])) == 0)
SummaryWithoutKeywords(item) == TruthyStr(item, "ai_summary") /\ ~TruthyList(item, "keywords")

\* the repair leaving the summary in place
ClearSummary_KeywordsOnly(item) == SetField(item, "keywords", <<>>)

\* item.pop('ai_summary', None); item['keywords'] = []
ClearSummary(item) == SetField(PopField(item, "ai_summary"), "keywords", <<>>)

FixMissingKeywords(items) ==
    [k \in 1..Len(items) |->
        IF SummaryWithoutKeywords(items[k]) THEN ClearSummary(items[k]) ELSE items[k]]

RepairOpen ==
    /\ status # "running"
    /\ IF ~Readable(disk)
       THEN PassEnds("exit1", "end")
       ELSE IF \A k \in 1..Len(disk.items) : ~SummaryWithoutKeywords(disk.items[k])
       THEN PassEnds("exit0", "repair_return")
       ELSE PassOpen("repair_save", FixMissingKeywords(disk.items))
    /\ UNCHANGED queue
    /\ PassFrame

RepairWritten ==
    /\ status = "running" /\ pc = "repair_save"
    /\ PassWritten

\* ---- regenerate_all.py (the backup copy it makes first is another file) ----
\* if 'ai_summary' in item or 'keywords' in item: pop ai_summary, keywords = []
RegenerateItem(item) ==
    IF "ai_summary" \in DOMAIN item \/ "keywords" \in DOMAIN item
    THEN ClearSummary(item)
    ELSE item

RegenerateAll(items) == [k \in 1..Len(items) |-> RegenerateItem(items[k])]

RegenerateOpen ==
    /\ status # "running"
    /\ IF ~Readable(disk)
       THEN PassEnds("exit1", "end")
       ELSE PassOpen("regenerate_save", RegenerateAll(disk.items))
    /\ UNCHANGED queue
    /\ PassFrame

RegenerateWritten ==
    /\ status = "running" /\ pc = "regenerate_save"
    /\ PassWritten

\* ---- clean_keywords.py ----
\* [kw for kw in item['keywords'] if kw.lower() not in EXCLUDED_KEYWORDS]
CleanItem(item) ==
    IF TruthyList(item, "keywords")
    THEN SetField(item, "keywords",
                  SelectSeq(item.keywords, LAMBDA kw : LowerWord(kw) \notin excluded_keywords))
    ELSE item

CleanAll(items) == [k \in 1..Len(items) |-> CleanItem(items[k])]

CleanOpen ==
    /\ status # "running"
    /\ IF ~Readable(disk)
       THEN PassEnds("exit1", "end")
       ELSE PassOpen("clean_save", CleanAll(disk.items))
    /\ UNCHANGED queue
    /\ PassFrame

CleanWritten ==
    /\ status = "running" /\ pc = "clean_save"
    /\ PassWritten

\* ---- fix_sources.py ----
\* item.get('source', 'unknown')
SourceOf(item) == IF "source" \in DOMAIN item THEN item.source ELSE "unknown"

\* if old_source != new_source: item['source'] = new_source
FixSource(item) ==
    IF SourceOf(item) # get_domain(item.link)
    THEN SetField(item, "source", get_domain(item.link))
    ELSE item

FixSourcesAll(items) == [k \in 1..Len(items) |-> FixSource(items[k])]

FixSourcesOpen ==
    /\ status # "running"
    /\ IF ~Readable(disk)
       THEN PassEnds("exit1", "end")
       ELSE PassOpen("sources_save", FixSourcesAll(disk.items))
    /\ UNCHANGED queue
    /\ PassFrame

FixSourcesWritten ==
    /\ status = "running" /\ pc = "sources_save"
    /\ PassWritten

\* ---- summarize_with_gemini.py, a run in one step ----
\* what the service answers to every attempt made for one item
CorpusScripts ==
    {[k \in 1..max_retries |-> r] :
        r \in {OkResponse(TextFull), OkResponse(TextNoKeywords), ErrResponse(Msg500)}}

RECURSIVE EnrichBatch(_, _, _)
\* the enrich loop over the batch q, the service answering scr[i] for items[i]
EnrichBatch(items, q, scr) ==
    IF q = <<>> THEN items
    ELSE EnrichBatch([items EXCEPT ![Head(q)] = ApplyResult(items[Head(q)], Enrich(scr[Head(q)]))],
                     Tail(q), scr)

EnrichOpen ==
    /\ status # "running"
    /\ IF ~HasKey(env) \/ ~Readable(disk)
       THEN PassEnds("exit1", "end") /\ UNCHANGED queue
       ELSE IF NeedIdx(disk.items, 1) = <<>>
       THEN PassEnds("exit0", "enrich_return") /\ UNCHANGED queue
       ELSE IF env.BATCH_SIZE.kind = "junk"
       THEN PassEnds("exit1", "end") /\ UNCHANGED queue
       ELSE \E scr \in [1..Len(disk.items) -> CorpusScripts] :
                /\ queue' = BatchLimit(NeedIdx(disk.items, 1), BatchSize(env))
                /\ PassOpen("enrich_save", EnrichBatch(disk.items, queue', scr))
    /\ PassFrame

EnrichWritten ==
    /\ status = "running" /\ pc = "enrich_save"
    /\ PassWritten

\* ---- fetch_rss.py, with the feeds delivering at most one entry ----
CorpusFeed == {FeedItem("a", "x", 2), FeedItem("b", "y", 1)}

CorpusBatches == {<<>>} \cup {<<x>> : x \in CorpusFeed}

CorpusMergeOpen ==
    /\ status # "running"
    /\ MergeOpenFrom(CorpusBatches)

\* items that earlier versions of the scripts have left in feed.json: one
\* with a redirect's domain and a generic keyword, one with a summary and no
\* keywords key
LegacyItems ==
    {[link |-> "b", title |-> "y", date |-> 1, source |-> "google", description |-> "",
      ai_summary |-> "s0", keywords |-> <<"Haptics", "vr">>],
     [link |-> "b", title |-> "y", date |-> 1, source |-> "site-b", description |-> "",
      ai_summary |-> "s0"]}

\* the environment of the scripts: the credential, and BATCH_SIZE unset or 1
CorpusEnvs == {[GEMINI_API_KEY |-> TRUE, BATCH_SIZE |-> b] : b \in {UnsetBatch, IntBatch(1)}}

InitCorpus ==
    /\ disk \in {NoFile, SaveClose(<<>>)} \cup {SaveClose(<<x>>) : x \in LegacyItems}
    /\ env \in CorpusEnvs
    /\ disk0 = disk
    /\ status = "none" /\ pc = "end"
    /\ mem = <<>> /\ queue = <<>> /\ idx = 0 /\ invoked = <<>>
    /\ IdleLoop
    /\ incoming = <<>>
    /\ IdleAdapter
    /\ persisted = LinksOnDisk(disk)
    /\ IdleStore

NextCorpus ==
    \/ CorpusMergeOpen
    \/ MergeWritten
    \/ EnrichOpen
    \/ EnrichWritten
    \/ ScoreOpen
    \/ ScoreWritten
    \/ RepairOpen
    \/ RepairWritten
    \/ RegenerateOpen
    \/ RegenerateWritten
    \/ CleanOpen
    \/ CleanWritten
    \/ FixSourcesOpen
    \/ FixSourcesWritten
    \/ Kill

SpecCorpus == InitCorpus /\ [][NextCorpus]_vars

(***************************************************************************)
(* The analytical store: analytics_db.py. analytics.db holds the tables    *)
(* articles, keywords and article_keywords, each a sequence of rows in     *)
(* insertion order; no row is ever deleted, so the AUTOINCREMENT id of a   *)
(* row is its position. created_at is left out. import_feed commits once,  *)
(* at its end: an import that raises leaves the tables as they were.       *)
(***************************************************************************)
\* None of Python, NULL of SQL
Null == "<NULL>"

\* item.get(f, default)
ItemGet(item, f, default) == IF f \in DOMAIN item THEN item[f] ELSE default

\* the lookup finding no row
FindArticle_None(articles, link) == {}

\* SELECT id FROM articles WHERE link = ?
FindArticle(articles, link) == {k \in 1..Len(articles) : articles[k].link = link}

\* SELECT id FROM keywords WHERE keyword = ?
FindKeyword(keywords, kw) == {k \in 1..Len(keywords) : keywords[k] = kw}

\* INSERT OR IGNORE INTO keywords (keyword) VALUES (?)
InsertKeyword(keywords, kw) ==
    IF FindKeyword(keywords, kw) # {} THEN keywords ELSE Append(keywords, kw)

\* the insert replacing the associations the article had
InsertLink_Replace(article_keywords, pair) ==
    Append(SelectSeq(article_keywords, LAMBDA p : p[1] # pair[1]), pair)

\* INSERT OR IGNORE INTO article_keywords (article_id, keyword_id) VALUES (?, ?)
InsertLink(article_keywords, pair) ==
    IF \E k \in 1..Len(article_keywords) : article_keywords[k] = pair
    THEN article_keywords
    ELSE Append(article_keywords, pair)

RECURSIVE ImportKeywords(_, _, _)
\* for kw in keywords: ..., for the article article_id
ImportKeywords(kws, article_id, st) ==
    IF kws = <<>> THEN st
    ELSE LET keywords == InsertKeyword(st.keywords, Head(kws))
             keyword_id == CHOOSE k \in FindKeyword(keywords, Head(kws)) : TRUE
         IN  ImportKeywords(Tail(kws), article_id,
                 [st EXCEPT !.keywords = keywords,
                            !.article_keywords = InsertLink(@, <<article_id, keyword_id>>)])

\* UPDATE articles SET ai_summary = ?, description = ? WHERE id = ?
UpdateArticle(articles, id, item) ==
    [articles EXCEPT ![id].ai_summary = ItemGet(item, "ai_summary", Null),
                     ![id].description = ItemGet(item, "description", Null)]

\* INSERT INTO articles (title, link, date, source, description, ai_summary) VALUES (...)
InsertArticle(articles, item) ==
    Append(articles,
           [id |-> Len(articles) + 1, title |-> item.title, link |-> item.link,
            date |-> item.date, source |-> ItemGet(item, "source", "unknown"),
            description |-> ItemGet(item, "description", ""),
            ai_summary |-> ItemGet(item, "ai_summary", "")])

RECURSIVE ImportItems(_, _, _)
\* import_feed: the loop over the items, from the tables st and the counts rep
ImportItems(items, st, rep) ==
    IF items = <<>> THEN [store |-> st, report |-> rep]
    ELSE LET item == Head(items)
             existing == FindArticle(st.articles, item.link)
         IN  IF existing # {}
             THEN LET article_id == CHOOSE k \in existing : TRUE
                  IN  ImportItems(Tail(items),
                          ImportKeywords(ItemGet(item, "keywords", <<>>), article_id,
                              [st EXCEPT !.articles = UpdateArticle(@, article_id, item)]),
                          [rep EXCEPT !.skipped = @ + 1])
             ELSE ImportItems(Tail(items),
                      ImportKeywords(ItemGet(item, "keywords", <<>>), Len(st.articles) + 1,
                          [st EXCEPT !.articles = InsertArticle(@, item)]),
                      [rep EXCEPT !.imported = @ + 1])

\* import_feed(conn) on the document items
import_feed(items, st) == ImportItems(items, st, NoReport)

\* items of the snapshots that are imported: fresh from the feed, enriched,
\* a second entry under the same link, and items as earlier versions left them
StoreItems ==
    {FeedItem("a", "x", 2),
     SetField(SetField(FeedItem("a", "x", 2), "ai_summary", "s1"), "keywords", <<"vr", "gaming">>),
     FeedItem("a", "y", 1)}
    \cup {SetField(x, "keywords", <<"vr">>) : x \in LegacyItems}

StoreSnapshots == UNION {[1..n -> StoreItems] : n \in 0..MaxSnapshot}

\* another script has rewritten feed.json, or is killed while it does
FeedReplaced ==
    /\ disk' \in {SaveOpen} \cup {SaveClose(snap) : snap \in StoreSnapshots}
    /\ disk' # disk
    /\ disk0' = disk'
    /\ status' = "none"
    /\ pc' = "end"
    /\ UNCHANGED <<env, persisted, storeVars, mem, queue, idx, invoked,
                   loopVars, incoming, adapterVars>>

\* analytics_db.main: create_database, import_feed
ImportRun ==
    /\ IF ~Readable(disk)
       THEN /\ status' = "exit1"
            /\ pc' = "end"
            /\ UNCHANGED storeVars
       ELSE /\ store' = import_feed(disk.items, store).store
            /\ report' = import_feed(disk.items, store).report
            /\ status' = "exit0"
            /\ pc' = "imported"
    /\ disk0' = disk
    /\ UNCHANGED <<disk, env, persisted, mem, queue, idx, invoked,
                   loopVars, incoming, adapterVars>>

InitStore ==
    /\ disk = NoFile
    /\ env = [GEMINI_API_KEY |-> TRUE, BATCH_SIZE |-> UnsetBatch]
    /\ disk0 = disk
    /\ status = "none" /\ pc = "end"
    /\ mem = <<>> /\ queue = <<>> /\ idx = 0 /\ invoked = <<>>
    /\ IdleLoop
    /\ incoming = <<>>
    /\ IdleAdapter
    /\ persisted = {}
    /\ IdleStore

NextStore ==
    \/ FeedReplaced
    \/ ImportRun

SpecStore == InitStore /\ [][NextStore]_vars

(***************************************************************************)
(* Claims about one enrichment run (Spec).                                 *)
(***************************************************************************)
Min(a, b) == IF a <= b THEN a ELSE b

Range(s) == {s[k] : k \in 1..Len(s)}

\* the item carries ai_summary = s
HasSummary(item, s) == "ai_summary" \in DOMAIN item /\ item.ai_summary = s

\* the backlog when the run started
Backlog0 == {i \in 1..Len(disk0.items) : NeedsSummary(disk0.items[i])}

\* BATCH_SIZE is unset or an integer >= 1
BatchAtLeastOne == env.BATCH_SIZE.kind # "junk" /\ BatchSize(env) >= 1

\* the run has ended normally
RunCompleted == status = "exit0" /\ pc = "end"

\* C1 Progress monotonicity: whenever feed.json is readable its backlog is not
\* larger than when the run started, and when a run with batch size B >= 1 has
\* completed the backlog is smaller by exactly min(B, n), whatever the adapter
\* returned for each item.
C1_ProgressMonotonicity ==
    /\ Readable(disk) /\ Readable(disk0)
         => CountNeeds(disk.items) <= CountNeeds(disk0.items)
    /\ RunCompleted /\ BatchAtLeastOne
         => CountNeeds(disk.items) =
                Cardinality(Backlog0) - Min(BatchSize(env), Cardinality(Backlog0))

\* a completed run that was cut by the batch limit and met both a success and a failure
C1_Witness ==
    /\ RunCompleted /\ BatchAtLeastOne
    /\ BatchSize(env) < Cardinality(Backlog0)
    /\ \E i, j \in Backlog0 :
         /\ HasSummary(disk.items[i], Sentinel)
         /\ HasSummary(disk.items[j], "s1")

\* C3 Adapter invocations: during a run with batch size B >= 1 the adapter is
\* invoked at most once per item and only for items of the backlog the run
\* started with; when the run has completed it has been invoked exactly for the
\* first min(B, n) of them, in corpus order; and a run on 3 items of which one
\* has a summary, with B = 10, makes 2 invocations and leaves a non-empty
\* summary on all 3 persisted items.
C3_AdapterInvocations ==
    /\ BatchAtLeastOne =>
         /\ \A k, l \in 1..Len(invoked) : k < l => invoked[k] < invoked[l]
         /\ Range(invoked) \subseteq Backlog0
         /\ Len(invoked) <= Min(BatchSize(env), Cardinality(Backlog0))
         /\ \A i \in Range(invoked) : \A j \in Backlog0 : j < i => j \in Range(invoked)
    /\ RunCompleted /\ BatchAtLeastOne =>
         Len(invoked) = Min(BatchSize(env), Cardinality(Backlog0))
    /\ RunCompleted /\ Len(disk0.items) = 3 /\ Cardinality(Backlog0) = 2
           /\ BatchSize(env) = 10 /\ env.BATCH_SIZE.kind # "junk" =>
         /\ Len(invoked) = 2
         /\ Len(disk.items) = 3
         /\ \A i \in 1..3 : TruthyStr(disk.items[i], "ai_summary")

\* the scenario: 3 items, the second one summarised, the default batch size
C3_Witness ==
    /\ RunCompleted
    /\ Len(disk0.items) = 3 /\ Backlog0 = {1, 3}
    /\ env.BATCH_SIZE = UnsetBatch
    /\ invoked = <<1, 3>>

\* iterations of the enrich loop that have run to their end
CompletedIterations == IF pc = "checkpoint" THEN idx - 1 ELSE idx

\* items of the starting backlog whose update feed.json holds
UpdatedOnDisk ==
    IF Readable(disk) THEN Cardinality({i \in Backlog0 : ~NeedsSummary(disk.items[i])}) ELSE 0

\* C8 Checkpoint safety (as claimed): a run killed after j iterations leaves at
\* least K * floor(j / K) updated items in feed.json.
C8_CheckpointSafety ==
    status = "killed" =>
        UpdatedOnDisk >= CheckpointEvery * (CompletedIterations \div CheckpointEvery)

\* C9 Atomic write (as claimed): whenever the run is killed, feed.json holds a
\* complete document, the previous one or the new one.
C9_AtomicWrite == status = "killed" /\ Readable(disk0) => Readable(disk)

\* the item the adapter was called for last
LastInvoked == invoked[Len(invoked)]

\* C11 Per-item failure is not fatal: when the adapter call for an item ends
\* in a failure ((None, []) after an error, or an empty summary), the item gets
\* ai_summary = the sentinel and keywords = [], the run does not end with a
\* failure status, and a run that completes has called the adapter for every
\* item of its batch and has written all of them, each with a non-empty
\* ai_summary, in its final save.
C11_FailureNotFatal ==
    /\ invoked # <<>> =>
         /\ ~ResultTruthy(result) =>
              /\ HasSummary(mem[LastInvoked], Sentinel)
              /\ "keywords" \in DOMAIN mem[LastInvoked]
              /\ mem[LastInvoked].keywords = <<>>
         /\ \A i \in Range(invoked) :
              /\ HasSummary(mem[i], Sentinel) \/ HasSummary(mem[i], "s1")
              /\ HasSummary(mem[i], Sentinel) =>
                   "keywords" \in DOMAIN mem[i] /\ mem[i].keywords = <<>>
         /\ status # "exit1"
    /\ RunCompleted /\ invoked # <<>> =>
         /\ Len(invoked) = Len(queue)
         /\ disk = SaveClose(mem)
         /\ \A i \in Range(invoked) : TruthyStr(disk.items[i], "ai_summary")

\* a completed run whose first call failed, whose second succeeded and whose
\* third returned no usable text
C11_Witness ==
    /\ RunCompleted
    /\ Len(invoked) = 3
    /\ HasSummary(disk.items[invoked[1]], Sentinel)
    /\ HasSummary(disk.items[invoked[2]], "s1")
    /\ HasSummary(disk.items[invoked[3]], Sentinel)
    /\ result = Returned("", <<>>)

\* the item carries both fields the enrichment writes
HasBoth(item) == "ai_summary" \in DOMAIN item /\ "keywords" \in DOMAIN item

\* what the enrich loop writes for the adapter's result r
Written(r) == IF ResultTruthy(r) THEN <<r.summary, r.keywords>> ELSE <<Sentinel, <<>>>>

\* a checkpoint has just been written
CheckpointDone == status = "running" /\ pc = "loop" /\ idx > 0 /\ CheckpointDue(idx)

\* C27 Summary and keywords together: the item the adapter was called for
\* last has in memory the summary and the keywords of that call (or the
\* sentinel and no keyword); in every document the run has written, an item
\* is as it was before the run or it has been processed and carries both
\* ai_summary and keywords, those it has in memory; and a checkpoint and the
\* final save hold every item processed so far with both fields.
C27_WrittenTogether ==
    /\ invoked # <<>> =>
         /\ HasBoth(mem[LastInvoked])
         /\ <<mem[LastInvoked].ai_summary, mem[LastInvoked].keywords>> = Written(result)
    /\ Readable(disk) =>
         \A i \in 1..Len(disk.items) :
             \/ disk.items[i] = disk0.items[i]
             \/ /\ i \in Range(invoked)
                /\ HasBoth(disk.items[i])
                /\ disk.items[i] = mem[i]
    /\ CheckpointDone \/ (RunCompleted /\ invoked # <<>>) =>
         /\ Readable(disk)
         /\ \A i \in Range(invoked) : HasBoth(disk.items[i]) /\ disk.items[i] # disk0.items[i]

\* a checkpoint that holds an item with a summary and its keywords and an item
\* with the sentinel and no keyword, while items are left in the batch
C27_Witness ==
    /\ CheckpointDone
    /\ idx < Len(queue)
    /\ \E i, j \in Range(invoked) :
         /\ HasSummary(disk.items[i], "s1") /\ disk.items[i].keywords = <<"vr", "gaming">>
         /\ HasSummary(disk.items[j], Sentinel) /\ disk.items[j].keywords = <<>>
    /\ ~HasBoth(disk.items[queue[idx + 1]])

\* C28 Final persist: a run that selected at least one item ends normally
\* only by completing a write of feed.json that it began after the last item
\* of its batch; the document it leaves is the list it holds in memory, with
\* a non-empty ai_summary on every item of the batch, those processed after
\* the last checkpoint included.
C28_FinalPersist ==
    [][status = "running" /\ status' = "exit0" /\ queue # <<>> =>
         /\ pc = "final" /\ idx = Len(queue)
         /\ disk = SaveOpen
         /\ disk' = SaveClose(mem) /\ mem' = mem
         /\ Len(invoked) = Len(queue)
         /\ \A i \in Range(queue) :
              /\ i \in Range(invoked)
              /\ TruthyStr(disk'.items[i], "ai_summary")
              /\ HasBoth(disk'.items[i])
      ]_vars

\* a completed run over a batch of 6: the checkpoint was written after the
\* fifth item, and the document left holds the update of the sixth as well
C28_Witness ==
    /\ RunCompleted
    /\ Len(queue) = 6 /\ idx = 6
    /\ disk = SaveClose(mem)
    /\ HasSummary(disk.items[queue[4]], "s1")
    /\ HasSummary(disk.items[queue[5]], Sentinel)
    /\ HasSummary(disk.items[queue[6]], "s1")

\* C24 Invalid batch size (as claimed): with a BATCH_SIZE that is not a
\* number, or is zero or negative, a run that finds items without a summary
\* calls the adapter for none of them, leaves feed.json as it is and does not
\* end normally.
C24_InvalidBatchFatal ==
    ~BatchAtLeastOne /\ Backlog0 # {} =>
        /\ invoked = <<>>
        /\ disk = disk0
        /\ status # "exit0"

(***************************************************************************)
(* Claims about the outer loop (SpecLoop).                                 *)
(***************************************************************************)
\* process_all.main has ended
LoopEnded == opc \in {"done", "stalled", "failed"}

\* no adapter call of this behaviour has succeeded: every one ended in the sentinel
NoSuccess ==
    /\ \A i \in 1..Len(disk.items) : ~HasSummary(disk.items[i], "s1")
    /\ \A i \in 1..Len(mem) : ~HasSummary(mem[i], "s1")

\* C2 Stall detection (as claimed): when every adapter call fails, the loop
\* ends after one scheduler invocation, on a no-progress observation, reporting
\* stalled.
C2_StallDetection ==
    LoopEnded /\ runs >= 1 /\ NoSuccess /\ opc # "failed" => opc = "stalled" /\ runs = 1

\* C2 (amended): with a batch size B >= 1 the loop never stops on a no-progress
\* observation, since a failed item gets the sentinel and leaves the backlog;
\* when every adapter call fails the loop that is not stopped by a failure of
\* the child ends reporting completion with an empty backlog. It reports
\* stalled only when an invocation left the remaining count unchanged, and then
\* it starts no further invocation.
C2_StallOnlyWithoutProgress ==
    /\ opc = "stalled" =>
         /\ ~BatchAtLeastOne
         /\ status = "none"
         /\ CountRemaining(disk) = remaining
         /\ CountRemaining(disk0) = remaining
    /\ LoopEnded /\ runs >= 1 /\ NoSuccess /\ BatchAtLeastOne /\ opc # "failed" =>
         /\ opc = "done"
         /\ Readable(disk) /\ CountNeeds(disk.items) = 0
         /\ \A i \in 1..Len(disk.items) :
              HasSummary(disk.items[i], "s0") \/ HasSummary(disk.items[i], Sentinel)

\* every adapter call failed and the loop reports completion after several invocations
C2_Witness ==
    /\ opc = "done" /\ runs >= 2 /\ NoSuccess
    /\ \E i \in 1..Len(disk.items) : HasSummary(disk.items[i], Sentinel)

\* C23 Hard failure of a sub-invocation: when the run that process_all
\* started has ended with a non-zero exit (a failure status, or a kill), the
\* next step of the loop is its end as failed, without another invocation;
\* and a loop that has failed stays failed, starts nothing and does not
\* report completion.
C23_HardFailureStops ==
    [][/\ opc = "wait" /\ status \in {"exit1", "killed"} =>
            opc' = "failed" /\ runs' = runs /\ status' = "none"
       /\ opc = "failed" =>
            opc' = "failed" /\ runs' = runs /\ status' # "running"
      ]_vars

\* BATCH_SIZE is not a number: the first run that process_all starts ends on
\* the exception of int(), with a failure status, and the loop has failed
\* after this one invocation, with the items still without a summary
C23_Witness ==
    /\ opc = "failed" /\ runs = 1
    /\ env.BATCH_SIZE = JunkBatch
    /\ Readable(disk) /\ CountNeeds(disk.items) >= 2
    /\ disk = disk0

\* n / b rounded up
Ceil(n, b) == (n + b - 1) \div b

\* the backlog process_all started with: the items of feed.json other than
\* those that had their summary ("s0") before; a run adds and removes no item
InitialBacklog ==
    LET d == IF Readable(disk) THEN disk ELSE disk0
    IN  Cardinality({i \in 1..Len(d.items) : ~HasSummary(d.items[i], "s0")})

\* C29 Termination of the outer loop: with a batch size B >= 1 the loop has
\* made at most ceil(n / B) invocations for an initial backlog of n; every
\* iteration that has started a run ends the loop as failed or stalled or
\* goes on with a remaining count that is strictly smaller; and the loop
\* ends, whatever the adapter returns.
C29_LoopTerminates ==
    /\ [](BatchAtLeastOne => runs <= Ceil(InitialBacklog, BatchSize(env)))
    /\ [][opc = "wait" /\ opc' # opc =>
             \/ opc' \in {"failed", "stalled"}
             \/ opc' = "top" /\ CountRemaining(disk) < remaining
         ]_vars
    /\ [][opc = "top" /\ opc' # opc =>
             \/ opc' = "done" /\ remaining' = 0 /\ runs' = runs
             \/ opc' = "wait" /\ remaining' > 0 /\ runs' = runs + 1
         ]_vars
    /\ (BatchAtLeastOne => <>LoopEnded)

\* a backlog of 5 with a batch size of 2: the loop has ended reporting
\* completion after 3 invocations
C29_Witness ==
    /\ opc = "done" /\ runs = 3
    /\ env.BATCH_SIZE = IntBatch(2)
    /\ InitialBacklog = 5
    /\ CountRemaining(disk) = 0

(***************************************************************************)
(* Claims about the merge (SpecMerge). A merge run is looked at when it    *)
(* has computed the snapshot it writes: mem, from the feed.json it loaded  *)
(* (disk0) and the fetched items (incoming).                               *)
(***************************************************************************)
MergeComputed == pc = "merge_save"

\* number of positions of items that hold x
Occ(items, x) == Cardinality({k \in 1..Len(items) : items[k] = x})

\* neither the link nor the title of x is that of an item of the loaded snapshot
Unknown(x) ==
    \A k \in 1..Len(disk0.items) :
        disk0.items[k].link # x.link /\ disk0.items[k].title # x.title

\* C4 No duplicate identities (as claimed): merging into a snapshot with
\* distinct links gives a snapshot with distinct links.
C4_NoDuplicateIdentities ==
    MergeComputed /\ DistinctLinks(disk0.items) => DistinctLinks(mem)

\* C5 Internal duplicates (as claimed): of several incoming items with the
\* same link, or the same title, that the existing snapshot does not match,
\* one only is in the merged snapshot.
C5_FirstOccurrenceOnly ==
    MergeComputed =>
        \A x \in Range(incoming) :
            Unknown(x) =>
                /\ Cardinality({k \in 1..Len(mem) : mem[k].link = x.link}) <= 1
                /\ Cardinality({k \in 1..Len(mem) : mem[k].title = x.title}) <= 1

\* C6 Merge frame: the merged snapshot holds every existing item as it was,
\* with all its fields, and in addition exactly the incoming items of which
\* neither the link nor the title is that of an existing item.
C6_MergeFrame ==
    MergeComputed =>
        /\ Len(mem) = Len(disk0.items)
                        + Cardinality({k \in 1..Len(incoming) : Unknown(incoming[k])})
        /\ \A x \in Range(disk0.items) \cup Range(incoming) :
             Occ(mem, x) = Occ(disk0.items, x)
                             + (IF Unknown(x) THEN Occ(incoming, x) ELSE 0)

\* an enriched existing item, an incoming item that only shares its title and
\* is suppressed, and an incoming item that is appended
C6_Witness ==
    /\ MergeComputed
    /\ Len(incoming) = 2
    /\ \E k \in 1..Len(disk0.items) :
         /\ "ai_summary" \in DOMAIN disk0.items[k]
         /\ "relevance_level" \in DOMAIN disk0.items[k]
         /\ incoming[1].title = disk0.items[k].title
         /\ incoming[1].link # disk0.items[k].link
         /\ Occ(mem, disk0.items[k]) = 1
    /\ Unknown(incoming[2])
    /\ Len(mem) = Len(disk0.items) + 1

\* C7 Idempotent merge: when every incoming link is already in the snapshot
\* the merge changes neither its set of links nor its number of items, and
\* merging the same incoming items into the merged snapshot once more gives
\* the merged snapshot again.
C7_IdempotentMerge ==
    MergeComputed =>
        /\ Links(incoming) \subseteq Links(disk0.items) =>
             /\ Links(mem) = Links(disk0.items)
             /\ Len(mem) = Len(disk0.items)
        /\ MergeItems(mem, incoming) = mem

\* two different incoming items which a snapshot of several items contains
C7_Witness ==
    /\ MergeComputed
    /\ Len(incoming) = 2 /\ incoming[1] # incoming[2]
    /\ Len(disk0.items) >= 2
    /\ Links(incoming) \subseteq Links(disk0.items)
    /\ \E k \in 1..2 : incoming[k].title \notin Titles(disk0.items)

\* the items of the sequence with the date d, in their order
WithDate(items, d) == SelectSeq(items, LAMBDA x : x.date = d)

\* existing_items + unique_new_items of the run: the order of insertion
Combined == LoadExisting(disk0) \o SelectSeq(incoming, Unknown)

\* C22 Order of the merged snapshot: the snapshot the merge writes is ordered
\* by date, newest first; the items of one date are in their order of
\* insertion (the existing ones as they were, then the new ones in input
\* order); sorting the snapshot again leaves it as it is, and a merge that
\* adds nothing to a sorted snapshot writes it in the order it had.
C22_StableDateOrder ==
    MergeComputed =>
        /\ IsSortedDesc(mem)
        /\ \A x \in Range(mem) \cup Range(Combined) :
             WithDate(mem, x.date) = WithDate(Combined, x.date)
        /\ SortByDateDesc(mem) = mem
        /\ Len(mem) = Len(disk0.items) /\ IsSortedDesc(disk0.items) => mem = disk0.items

\* a new item that is newer than the existing one and one of the same date:
\* the first is written before the existing item, the second after it
C22_Witness ==
    /\ MergeComputed
    /\ Len(disk0.items) = 1 /\ Len(incoming) = 2 /\ Len(mem) = 3
    /\ mem[1] = incoming[2]
    /\ mem[2] = disk0.items[1]
    /\ mem[3] = incoming[1]
    /\ mem[2].date = mem[3].date /\ mem[1].date > mem[2].date

(***************************************************************************)
(* Claims about one adapter call (SpecAdapter). script holds the answers   *)
(* of the service to the attempts made so far.                             *)
(***************************************************************************)
\* the error messages that contain "429" or, in any case, "quota"
RateLimitMessages == {Msg429, MsgQuota, MsgCode429}

QuotaError(resp) == resp.kind = "error" /\ resp.msg \in RateLimitMessages

\* C10 Retry policy: a call makes at most max_retries attempts; every attempt
\* but the last one made ended in a rate/quota error; the call has ended
\* exactly when the last attempt returned a text, raised another error, or was
\* the max_retries-th; it ends with (None, []) after an error and with a
\* summary after a text.
C10_RetryPolicy ==
    /\ Len(script) <= max_retries
    /\ \A k \in 1..(Len(script) - 1) : QuotaError(script[k])
    /\ attempt = (IF result.returned THEN Len(script) - 1 ELSE Len(script))
    /\ result.returned <=>
         /\ script # <<>>
         /\ \/ ~QuotaError(script[Len(script)])
            \/ Len(script) = max_retries
    /\ result.returned /\ script[Len(script)].kind = "error" => result = ReturnedNone
    /\ script # <<>> /\ script[Len(script)].kind = "ok" => result.returned /\ ~result.none

\* max_retries rate/quota errors in a row: the call ends with (None, [])
C10_Witness ==
    /\ Len(script) = max_retries
    /\ \A k \in 1..Len(script) : QuotaError(script[k])
    /\ result = ReturnedNone

\* the attempts made so far that were followed by a wait: those that ended in
\* a rate/quota error, but for the max_retries-th
Waited == {k \in 1..Len(script) : QuotaError(script[k]) /\ k < max_retries}

KeywordEntries(text) ==
    LET ls == SelectSeq(text.lines, LAMBDA l : l.tag = "KEYWORDS")
    IN  IF ls = <<>> THEN <<>> ELSE ls[Len(ls)].pieces

\* the entries trimmed and lowercased, without the empty and the excluded ones
Admitted(pieces) ==
    SelectSeq([k \in 1..Len(pieces) |-> LowerWord(Strip(pieces[k]))],
              LAMBDA w : w # "" /\ w \notin excluded_keywords)

\* C26 Keyword list: the keywords the adapter returns with a text are
\* trimmed, lowercased, non-empty, not in the exclusion set and at most 4;
\* they are exactly the first 4 of the admitted entries of the KEYWORDS line,
\* in their order, so that an excluded or empty entry uses up no slot.
C26_KeywordList ==
    result.returned =>
        /\ Len(result.keywords) <= 4
        /\ \A k \in 1..Len(result.keywords) :
             LET kw == result.keywords[k]
             IN  kw # "" /\ Strip(kw) = kw /\ LowerWord(kw) = kw /\ kw \notin excluded_keywords
        /\ script[Len(script)].kind = "ok" =>
             LET admitted == Admitted(KeywordEntries(script[Len(script)].text))
             IN  result.keywords = [k \in 1..Min(4, Len(admitted)) |-> admitted[k]]
        /\ script[Len(script)].kind = "error" => result.keywords = <<>>

\* a KEYWORDS line of seven entries, of which one is excluded and one is
\* empty: the four first of the other five are returned
C26_Witness ==
    /\ result.returned
    /\ script[Len(script)] = OkResponse(TextManyKeywords)
    /\ result.keywords = <<"a", "b", "c", "d">>

\* the call has ended on a text that the service returned without error
NominalSuccess == result.returned /\ script # <<>> /\ script[Len(script)].kind = "ok"

\* C13 Summary never empty (as claimed): when the generation call returns
\* without error, the summary the adapter returns is not empty.
C13_SummaryNeverEmpty == NominalSuccess => result.summary # ""

(***************************************************************************)
(* Claims about the passes over feed.json (SpecCorpus). A pass is looked   *)
(* at when it has computed the snapshot it writes: mem, from the document  *)
(* it loaded (disk0).                                                      *)
(***************************************************************************)
SavePcs ==
    {"merge_save", "enrich_save", "score_save", "repair_save",
     "regenerate_save", "clean_save", "sources_save"}

\* the items the running pass loaded
Loaded == LoadExisting(disk0)

\* the keyword, trimmed and lowercased, is an entry of the exclusion set
Excluded(kw) == LowerWord(Strip(kw)) \in excluded_keywords

NoExcludedKeyword(item) ==
    "keywords" \in DOMAIN item => \A k \in 1..Len(item.keywords) : ~Excluded(item.keywords[k])

\* C12 Exclusion filter: whatever the service answers, no item the enrichment
\* has processed carries a keyword of the exclusion set in the snapshot it
\* writes; clean_keywords writes a snapshot without any such keyword; and no
\* pass writes such a keyword into a snapshot that it loaded without one.
C12_ExclusionFilter ==
    /\ pc = "enrich_save" => \A i \in Range(queue) : NoExcludedKeyword(mem[i])
    /\ pc = "clean_save" => \A i \in 1..Len(mem) : NoExcludedKeyword(mem[i])
    /\ pc \in SavePcs /\ (\A k \in 1..Len(Loaded) : NoExcludedKeyword(Loaded[k]))
         => \A i \in 1..Len(mem) : NoExcludedKeyword(mem[i])

\* the service named a generic keyword ("Haptic") among others: the item is
\* written with the others only, next to an item that still has one
C12_Witness ==
    /\ pc = "enrich_save"
    /\ \E i \in Range(queue) :
         HasSummary(mem[i], "s1") /\ mem[i].keywords = <<"vr", "gaming">>
    /\ \E j \in 1..Len(mem) : ~NoExcludedKeyword(mem[j])

Levels == {"low", "mid", "high"}

HasLevel(item) == TruthyStr(item, "relevance_level")

\* C16 relevanceTier is write-once: every item that a pass loaded with a
\* relevance_level is in the snapshot the pass writes with the same
\* relevance_level, whichever pass it is, and a relevance_level is always one
\* of low, mid, high.
C16_RelevanceWriteOnce ==
    /\ pc \in SavePcs =>
         \A k \in 1..Len(Loaded) :
             HasLevel(Loaded[k]) =>
                 \E j \in 1..Len(mem) :
                     /\ mem[j].link = Loaded[k].link
                     /\ HasLevel(mem[j])
                     /\ mem[j].relevance_level = Loaded[k].relevance_level
    /\ \A j \in 1..Len(mem) :
         "relevance_level" \in DOMAIN mem[j] => mem[j].relevance_level \in Levels
    /\ \A j \in 1..Len(disk.items) :
         "relevance_level" \in DOMAIN disk.items[j] => disk.items[j].relevance_level \in Levels

\* a scoring run that finds one item scored high and scores the other one mid
C16_Witness ==
    /\ pc = "score_save"
    /\ \E k, j \in 1..Len(Loaded) :
         /\ HasLevel(Loaded[k]) /\ Loaded[k].relevance_level = "high"
         /\ mem[k].relevance_level = "high"
         /\ ~HasLevel(Loaded[j])
         /\ mem[j].relevance_level = "mid"

\* C17 Repair pass: the snapshot fix_missing_keywords writes has no item with
\* a non-empty summary and absent or empty keywords; every item it loaded in
\* that state is written without ai_summary, so the enrichment selects it
\* again; every other item is written as it was loaded; and when the pass
\* returns without writing, feed.json holds no item in that state.
C17_RepairPass ==
    /\ pc = "repair_save" =>
         /\ Len(mem) = Len(Loaded)
         /\ \A k \in 1..Len(mem) :
              /\ ~SummaryWithoutKeywords(mem[k])
              /\ IF SummaryWithoutKeywords(Loaded[k])
                 THEN /\ "ai_summary" \notin DOMAIN mem[k]
                      /\ k \in Range(NeedIdx(mem, 1))
                 ELSE mem[k] = Loaded[k]
    /\ pc = "repair_return" =>
         /\ disk = disk0
         /\ \A k \in 1..Len(disk.items) : ~SummaryWithoutKeywords(disk.items[k])

\* a repair run over an item marked with the sentinel and an item with
\* summary and keywords
C17_Witness ==
    /\ pc = "repair_save"
    /\ \E k, j \in 1..Len(Loaded) :
         /\ HasSummary(Loaded[k], Sentinel) /\ Loaded[k].keywords = <<>>
         /\ TruthyStr(Loaded[j], "ai_summary") /\ TruthyList(Loaded[j], "keywords")
         /\ mem[j] = Loaded[j]
         /\ NeedsSummary(mem[k])

\* the batch of an enrichment run started on the document items
NextBatch(items) == Range(BatchLimit(NeedIdx(items, 1), BatchSize(env)))

\* the item was marked as failed: the sentinel and no keyword
MarkedFailed(item) ==
    HasSummary(item, Sentinel) /\ "keywords" \in DOMAIN item /\ item.keywords = <<>>

\* the item was summarised by the service, which named no keyword
SummarisedBare(item) ==
    HasSummary(item, "s2") /\ "keywords" \in DOMAIN item /\ item.keywords = <<>>

\* C30 Repair and retry (as claimed): every item that fix_missing_keywords
\* loaded as marked failed, or summarised with an empty keyword list, is
\* written without its summary and is in the batch of the next enrichment run.
C30_RepairedRetriedByNextRun ==
    pc = "repair_save" =>
        \A k \in 1..Len(Loaded) :
            MarkedFailed(Loaded[k]) \/ SummarisedBare(Loaded[k]) =>
                /\ "ai_summary" \notin DOMAIN mem[k]
                /\ k \in NextBatch(mem)

\* C30 (amended): fix_missing_keywords treats an item marked as failed as
\* it treats an item summarised with an empty keyword list: both are written
\* without ai_summary and with keywords = [], all else as loaded, and are in
\* the backlog of the document written; the next enrichment run has in its
\* batch those of them that are among the first BATCH_SIZE items of that
\* backlog, and no other.
C30_RepairedBackInBacklog ==
    /\ pc = "repair_save" =>
         \A k \in 1..Len(Loaded) :
             MarkedFailed(Loaded[k]) \/ SummarisedBare(Loaded[k]) =>
                 /\ mem[k] = SetField(PopField(Loaded[k], "ai_summary"), "keywords", <<>>)
                 /\ k \in Range(NeedIdx(mem, 1))
                 /\ k \in NextBatch(mem) <=>
                      Cardinality({j \in Range(NeedIdx(mem, 1)) : j < k}) < BatchSize(env)
    /\ pc = "enrich_save" =>
         /\ queue = BatchLimit(NeedIdx(Loaded, 1), BatchSize(env))
         /\ \A k \in 1..Len(Loaded) : k \notin Range(queue) => mem[k] = Loaded[k]

\* with BATCH_SIZE = 1, a repair run over an item marked as failed and an
\* item summarised without keywords: both lose their summary, the first one
\* is in the batch of the next run and the second one is not
C30_Witness ==
    /\ pc = "repair_save"
    /\ env.BATCH_SIZE = IntBatch(1)
    /\ Len(Loaded) = 2
    /\ MarkedFailed(Loaded[1]) /\ SummarisedBare(Loaded[2])
    /\ NeedsSummary(mem[1]) /\ NeedsSummary(mem[2])
    /\ NextBatch(mem) = {1}

\* C20 Items are never deleted (as claimed): every link that a complete
\* feed.json has held is in every later complete feed.json.
C20_IdentitiesNeverShrink == Readable(disk) => persisted \subseteq Links(disk.items)

(***************************************************************************)
(* Claims about the analytical store (SpecStore). After an import, disk0   *)
(* is the document that was imported.                                      *)
(***************************************************************************)
Imported == status = "exit0" /\ pc = "imported"

\* no two positions of the sequence hold the same value
NoRepeat(seq) == \A k, l \in 1..Len(seq) : k # l => seq[k] # seq[l]

\* C14 Re-import (as claimed): importing the snapshot that was just imported
\* once more leaves articles, keywords and article_keywords as they are, and
\* after any imports link is unique in articles, keyword is unique in
\* keywords and no (article, keyword) pair occurs twice.
C14_ReimportUnchanged ==
    /\ Imported => import_feed(disk0.items, store).store = store
    /\ NoRepeat([k \in 1..Len(store.articles) |-> store.articles[k].link])
    /\ NoRepeat(store.keywords)
    /\ NoRepeat(store.article_keywords)

\* the positions of the snapshot at which the import finds the link in the
\* table: the link was there before, or an earlier position has inserted it
FoundAt(items, articles) ==
    {k \in 1..Len(items) :
        \/ items[k].link \in Links(articles)
        \/ \E j \in 1..(k - 1) : items[j].link = items[k].link}

\* the last item of the snapshot with the link
LastWith(items, link) ==
    items[CHOOSE k \in 1..Len(items) :
              /\ items[k].link = link
              /\ \A j \in (k + 1)..Len(items) : items[j].link # link]

\* C15 Upsert and counts: an import updates the row of every item whose link
\* is in the table when the item is reached (ai_summary and description are
\* those of the item, title, date and source stay) and counts it as updated,
\* inserts a row for every other item and counts it as inserted, and the two
\* counts add up to the number of items.
C15_UpsertCounts ==
    [][pc' = "imported" =>
         LET items == disk.items
             old == store.articles
             new == store'.articles
         IN  /\ report'.skipped = Cardinality(FoundAt(items, old))
             /\ report'.imported = Len(items) - Cardinality(FoundAt(items, old))
             /\ report'.imported + report'.skipped = Len(items)
             /\ Len(new) = Len(old) + report'.imported
             /\ \A k \in 1..Len(old) :
                  /\ new[k].id = old[k].id /\ new[k].link = old[k].link
                  /\ new[k].title = old[k].title /\ new[k].date = old[k].date
                  /\ new[k].source = old[k].source
                  /\ IF old[k].link \in Links(items)
                     THEN /\ new[k].ai_summary =
                                ItemGet(LastWith(items, old[k].link), "ai_summary", Null)
                          /\ new[k].description =
                                ItemGet(LastWith(items, old[k].link), "description", Null)
                     ELSE new[k] = old[k]
             /\ \A k \in (Len(old) + 1)..Len(new) :
                  /\ new[k].id = k
                  /\ new[k].link \in Links(items) \ Links(old)
             /\ Links(new) = Links(old) \cup Links(items)
      ]_vars

\* an import that inserted one item and updated another, whose row keeps the
\* source it was inserted with and has the item's summary
C15_Witness ==
    /\ Imported
    /\ report.imported = 1 /\ report.skipped = 1
    /\ \E k \in 1..Len(store.articles) : \E j \in 1..Len(disk0.items) :
         /\ store.articles[k].link = disk0.items[j].link
         /\ store.articles[k].source # disk0.items[j].source
         /\ store.articles[k].ai_summary = disk0.items[j].ai_summary

\* every row of the table s is in the table t, at its position
IsPrefix(s, t) == Len(s) <= Len(t) /\ \A k \in 1..Len(s) : t[k] = s[k]

\* the keywords that the items of the document give for the link
KeywordsInFeed(items, link) ==
    UNION {Range(ItemGet(items[j], "keywords", <<>>)) :
              j \in {i \in 1..Len(items) : items[i].link = link}}

\* C31 The store only grows: no step removes a row of articles, keywords or
\* article_keywords: every article keeps its id and its link, every keyword
\* and every association its position, whatever the document imported; so
\* the association of an article with a keyword that its item has lost is
\* there after the import of the item without it.
C31_StoreOnlyGrows ==
    [][\/ UNCHANGED store
       \/ /\ Len(store.articles) <= Len(store'.articles)
          /\ \A k \in 1..Len(store.articles) :
               /\ store'.articles[k].id = store.articles[k].id
               /\ store'.articles[k].link = store.articles[k].link
          /\ IsPrefix(store.keywords, store'.keywords)
          /\ IsPrefix(store.article_keywords, store'.article_keywords)
          /\ \A p \in Range(store.article_keywords) :
               store.keywords[p[2]] \notin KeywordsInFeed(disk.items, store.articles[p[1]].link)
                   => p \in Range(store'.article_keywords)
      ]_vars

\* an import of a document whose item has none of the keywords it had when
\* it was imported before: the article is still associated with one of them
C31_Witness ==
    /\ Imported
    /\ \E a \in 1..Len(store.articles) : \E w \in 1..Len(store.keywords) :
         /\ <<a, w>> \in Range(store.article_keywords)
         /\ store.articles[a].link \in Links(disk0.items)
         /\ store.keywords[w] \notin KeywordsInFeed(disk0.items, store.articles[a].link)
         /\ store.articles[a].ai_summary = Null

(***************************************************************************)
(* Claims about the start of the scripts (SpecScripts).                    *)
(***************************************************************************)
\* C18 Missing credential: without GEMINI_API_KEY neither script loads or
\* writes feed.json, calls the adapter or starts a run; summarize_with_gemini
\* ends with a failure status and process_all ends as failed before its loop.
C18_MissingCredential ==
    ~env.GEMINI_API_KEY =>
        /\ disk = disk0 /\ persisted = LinksOnDisk(disk)
        /\ mem = <<>> /\ queue = <<>> /\ idx = 0 /\ invoked = <<>>
        /\ result = NotReturned
        /\ iteration = 0 /\ runs = 0
        /\ status \in {"none", "running", "killed", "exit1"}
        /\ status = "running" => pc = "start"
        /\ opc \in {"none", "start", "failed"}

\* without the credential, summarize_with_gemini.py has ended with a failure
\* status and process_all.py, started next, has failed as well, with items in
\* feed.json that have no summary
C18_Witness ==
    /\ ~env.GEMINI_API_KEY
    /\ status = "exit1"
    /\ opc = "failed"
    /\ CountRemaining(disk) > 0

\* C19 Missing or unreadable corpus (as claimed): when feed.json is missing
\* or cannot be parsed, summarize_with_gemini does not end normally and does
\* no work, and process_all does not end reporting that all items were
\* processed.
C19_UnreadableCorpusFatal ==
    /\ ~Readable(disk0) => status # "exit0" /\ invoked = <<>> /\ disk = disk0
    /\ ~Readable(disk) => opc # "done"

\* the fields of an item that the enrichment does not write
Identity(item) == PopField(PopField(item, "ai_summary"), "keywords")

\* the item had a non-empty ai_summary in feed.json when the run started
Processed0(i) == TruthyStr(disk0.items[i], "ai_summary")

\* the first min(B, n) items of the backlog the run started with
BatchPrefix == {i \in Backlog0 : Cardinality({j \in Backlog0 : j < i}) < BatchSize(env)}

\* items has the items the run started with, in their order, those outside
\* of the batch as they were
RunFrame(items) ==
    /\ Len(items) = Len(disk0.items)
    /\ \A i \in 1..Len(items) :
         /\ Identity(items[i]) = Identity(disk0.items[i])
         /\ Processed0(i) => items[i] = disk0.items[i]
         /\ BatchAtLeastOne /\ i \notin BatchPrefix => items[i] = disk0.items[i]

\* C21 Idempotent resumption: in every run, the first one, one that
\* process_all starts or one started again after an interruption, the list in
\* memory and every document the run writes have the items of the feed.json
\* the run started with, in the same order; every item that had a non-empty
\* ai_summary (a summary or the sentinel) and every backlog item beyond the
\* batch prefix is as it was; and the adapter is never called for an item that
\* had a non-empty ai_summary.
C21_IdempotentResumption ==
    /\ mem # <<>> => RunFrame(mem)
    /\ Readable(disk) /\ Readable(disk0) => RunFrame(disk.items)
    /\ \A i \in Range(invoked) : ~Processed0(i)

\* process_all has failed because its second run was killed; the run started
\* again by hand has found an item marked with the sentinel and left it, has
\* summarised another one and has left a third one beyond its batch
C21_Witness ==
    /\ opc = "failed" /\ runs >= 2
    /\ RunCompleted
    /\ \E i, k \in 1..Len(disk0.items) : \E j \in Range(invoked) :
         /\ HasSummary(disk0.items[i], Sentinel) /\ disk.items[i] = disk0.items[i]
         /\ HasSummary(disk.items[j], "s1")
         /\ NeedsSummary(disk0.items[k]) /\ disk.items[k] = disk0.items[k]

====
